---- MODULE Spec2Model ----
(***************************************************************************)
(* A model of econmodel.py: a city of people, business locations and       *)
(* businesses, advanced one cycle at a time by City.city_cycle.            *)
(*                                                                         *)
(* Conventions.  Python objects are records; a Business carries an `id`    *)
(* (its object identity, the number of Business objects constructed when   *)
(* it was made).  Lists are sequences, indexed from 1 where Python indexes *)
(* from 0.  Where the source names an attribute or variable that does not  *)
(* exist (self.population for self.people, biztype for btype,              *)
(* business.location for business.blocation, self.city for city, the dict  *)
(* self.btypes iterated for its values), the model takes the object the    *)
(* statement refers to; control flow, comparisons, list mutation and the   *)
(* order of statements are the source's.  The catalogs of business and     *)
(* demand types and the random draws come from outside the source file     *)
(* and are inputs.                                                         *)
(***************************************************************************)
EXTENDS Integers, Sequences, FiniteSets, TLC

\* ------------------------------------------------------------- bounds
MaxPeople == 1      \* n_people given to City(...) ranges over 0..MaxPeople
MaxLoc == 2         \* number of business locations ranges over 0..MaxLoc
MaxAge == 2         \* cycles run in all ranges over 0..MaxAge
MaxNeed == 2        \* draws that would take a need above MaxNeed are left out
MaxScore == 2       \* a numeric startup score ranges over 0..MaxScore
MaxCalls == 2       \* direct calls of BusinessType.startup in SpecStartup

\* Python's None.  Every field that may hold None otherwise holds a
\* non-negative integer, and Python 2 orders None below every number.
None == -1

\* The demand types read by compile_dtypes, in the dict's iteration order.
DTypes == << [dlambda |-> 1, dprice |-> 2] >>

\* The business types read by compile_btypes, in the dict's iteration order.
BTypes == << [initial_cash |-> 1, burnrate |-> 1],
             [initial_cash |-> 0, burnrate |-> 1] >>

\* What BusinessType.startup_score may return: None (the stub's result) or
\* a number.
Scores == {None} \cup (0..MaxScore)

\* What one poisson.rvs call may return, for a need that stands at `need`
\* and a demand type n.
Arrivals(need, n) ==
  {a \in 0..MaxNeed : need + a * DTypes[n].dprice <= MaxNeed}

VARIABLES city,   \* the City object: age, btypes, needs (one entry per person),
                  \* available (one flag per business location), businesses,
                  \* failed_businesses, created (Business objects made so far)
          pc,     \* where life/city_cycle stands
          i,      \* position of the running for loop
          todo,   \* iterations left of life's for loop
          log,    \* what has happened in the current cycle (history)
          twin    \* a second run on the same draws (used by SpecCompose only)

vars == << city, pc, i, todo, log, twin >>

\* ------------------------------------------------------------- objects

\* free on a flag that all locations share
free_frees_all(c, bl) ==
  [c EXCEPT !.available = [x \in DOMAIN c.available |-> TRUE]]

\* BusinessLocation.free
free(c, bl) == [c EXCEPT !.available[bl] = TRUE]

\* BusinessLocation.fill
fill(c, bl) == [c EXCEPT !.available[bl] = FALSE]

\* Business.__init__: the new object's fields (its call of blocation.fill()
\* is applied by startup, which holds the city).
Business(c, bl, bt) ==
  [ id |-> c.created + 1,
    blocation |-> bl,
    btype |-> bt,
    cash |-> c.btypes[bt].initial_cash,
    birthday |-> c.age,
    deathday |-> None,
    lifespan |-> None ]

\* BusinessType.startup: construct the Business (which fills the location)
\* and append it to city.businesses.
startup(c, bt, bl) ==
  LET b == Business(c, bl, bt)
      filled == fill(c, b.blocation)
  IN [filled EXCEPT !.businesses = Append(@, b), !.created = @ + 1]

\* list.remove(x): drop the first element that is x (object identity).
Remove(s, b) ==
  LET k == CHOOSE j \in 1..Len(s) :
             s[j].id = b.id /\ \A h \in 1..(j - 1) : s[h].id # b.id
  IN SubSeq(s, 1, k - 1) \o SubSeq(s, k + 1, Len(s))

\* bizfail without its append(): the dead business is in neither list
bizfail_loses_business(c, b) ==
  free([c EXCEPT !.businesses = Remove(@, b)], b.blocation)

\* bizfail without its last line: the location stays filled
bizfail_keeps_location(c, b) ==
  LET appended == [c EXCEPT !.failed_businesses = Append(@, b)]
  IN [appended EXCEPT !.businesses = Remove(@, b)]

\* bizfail without its remove(): the business stays in city.businesses
bizfail_keeps_active(c, b) ==
  free([c EXCEPT !.failed_businesses = Append(@, b)], b.blocation)

\* City.bizfail
bizfail(c, b) ==
  LET appended == [c EXCEPT !.failed_businesses = Append(@, b)]
      removed == [appended EXCEPT !.businesses = Remove(@, b)]
  IN free(removed, b.blocation)

\* die with the lifespan counted from the city's birth
die_counts_from_zero(c, k) ==
  LET b == c.businesses[k]
      dead == [b EXCEPT !.deathday = c.age, !.lifespan = c.age]
  IN bizfail([c EXCEPT !.businesses[k] = dead], dead)

\* Business.die, for the business at position k of city.businesses
die(c, k) ==
  LET b == c.businesses[k]
      dead == [b EXCEPT !.deathday = c.age, !.lifespan = c.age - b.birthday]
  IN bizfail([c EXCEPT !.businesses[k] = dead], dead)

\* burn with the test `self.cash < -1`
burn_late_death(c, k) ==
  LET b == c.businesses[k]
      cash == b.cash - c.btypes[b.btype].burnrate
      paid == [c EXCEPT !.businesses[k].cash = cash]
  IN IF cash < -1 THEN die(paid, k) ELSE paid

\* burn with the test `self.cash <= 0`
burn_dies_at_zero(c, k) ==
  LET b == c.businesses[k]
      cash == b.cash - c.btypes[b.btype].burnrate
      paid == [c EXCEPT !.businesses[k].cash = cash]
  IN IF cash <= 0 THEN die(paid, k) ELSE paid

\* burn without its call of die()
burn_without_death(c, k) ==
  [c EXCEPT !.businesses[k].cash = @ - c.btypes[c.businesses[k].btype].burnrate]

\* Business.burn, for the business at position k of city.businesses
burn(c, k) ==
  LET b == c.businesses[k]
      cash == b.cash - c.btypes[b.btype].burnrate
      paid == [c EXCEPT !.businesses[k].cash = cash]
  IN IF cash < 0 THEN die(paid, k) ELSE paid

\* generate that takes the arrivals off the need
generate_consumes(c, p, arrivals) ==
  [c EXCEPT !.needs[p] =
     [n \in DOMAIN DTypes |-> @[n] - arrivals[n] * DTypes[n].dprice]]

\* Person.generate, for person p; arrivals[n] is the poisson draw for
\* demand type n
generate(c, p, arrivals) ==
  [c EXCEPT !.needs[p] =
     [n \in DOMAIN DTypes |-> @[n] + arrivals[n] * DTypes[n].dprice]]

\* Person.fulfill
fulfill(c, p) == c

\* DemandType.demand_radius: the body is `pass`
demand_radius(need) == None

\* Person.init_needs
init_needs == [n \in DOMAIN DTypes |-> 0]


\* ------------------------------------------------------------- City

\* the scan with the test `s >= best`
RECURSIVE best_scan_last_wins(_, _)
best_scan_last_wins(s, n) ==
  IF n = 0 THEN [best |-> 0, best_type |-> None]
  ELSE LET r == best_scan_last_wins(s, n - 1)
       IN IF s[n] >= r.best THEN [best |-> s[n], best_type |-> n] ELSE r

\* City.city_cycle, lines 128-134: the scan over the business types that
\* keeps the best score and its type; s[t] is startup_score of type t and
\* n the number of types scanned so far.
RECURSIVE best_scan(_, _)
best_scan(s, n) ==
  IF n = 0 THEN [best |-> 0, best_type |-> None]
  ELSE LET r == best_scan(s, n - 1)
       IN IF s[n] > r.best THEN [best |-> s[n], best_type |-> n] ELSE r

\* the loop body with the test `best > 1`
evaluate_high_threshold(c, bl, s) ==
  IF c.available[bl]
  THEN LET r == best_scan(s, Len(c.btypes))
       IN IF r.best > 1 THEN startup(c, r.best_type, bl) ELSE c
  ELSE c

\* City.city_cycle, lines 127-136: the body of the loop over the business
\* locations, for location bl.
evaluate(c, bl, s) ==
  IF c.available[bl]
  THEN LET r == best_scan(s, Len(c.btypes))
       IN IF r.best >= 1 THEN startup(c, r.best_type, bl) ELSE c
  ELSE c

\* City.business_populate, the loop over fill_indices: the first n of the
\* sampled indices, each with the type that choice() drew for it.
RECURSIVE business_populate(_, _, _, _)
business_populate(c, fill_indices, choices, n) ==
  IF n = 0 THEN c
  ELSE startup(business_populate(c, fill_indices, choices, n - 1),
               choices[n], fill_indices[n])

\* int(nl * ratio) with ratio = .75
FillCount(nl) == (3 * nl) \div 4

\* sample(range(nl), k): every ordering of k distinct indices
Samples(nl, k) ==
  {s \in [1..k -> 1..nl] : \A a, b \in 1..k : s[a] = s[b] => a = b}

\* City.__init__
City(n_people, nl, bts, fill_indices, choices) ==
  business_populate(
    [ age |-> 0,
      btypes |-> bts,
      needs |-> [p \in 1..n_people |-> init_needs],
      available |-> [bl \in 1..nl |-> TRUE],
      businesses |-> << >>,
      failed_businesses |-> << >>,
      created |-> 0 ],
    fill_indices, choices, FillCount(nl))

\* The cities construction can return: choice() needs a business type
\* whenever at least one location is to be filled.
Catalogs == {SubSeq(BTypes, 1, n) : n \in 0..Len(BTypes)}

Cities ==
  UNION { UNION { UNION {
    { City(n_people, nl, bts, fill_indices, choices) :
        fill_indices \in Samples(nl, FillCount(nl)),
        choices \in [1..FillCount(nl) -> 1..Len(bts)] } :
      bts \in {x \in Catalogs : FillCount(nl) = 0 \/ Len(x) > 0} } :
      nl \in 0..MaxLoc } :
      n_people \in 0..MaxPeople }

\* ------------------------------------------------------------- control
\* A run is [city, pc, i, todo].  pc is "idle" (no call of life in
\* progress), "life" (at the head of life's for loop) or the loop of
\* city_cycle that is running: "generate", "startup", "fulfill", "burn".

\* city_cycle with the fulfill loop written before the startup loop
PhaseAfter_fulfill_first(p) ==
  CASE p = "generate" -> "fulfill"
    [] p = "fulfill" -> "startup"
    [] p = "startup" -> "burn"
    [] p = "burn" -> "life"

\* city_cycle with the burn loop written before the startup loop
PhaseAfter_burn_first(p) ==
  CASE p = "generate" -> "burn"
    [] p = "burn" -> "startup"
    [] p = "startup" -> "fulfill"
    [] p = "fulfill" -> "life"

\* City.city_cycle: the order of its four loops; after the last it returns
\* to life's loop.
PhaseAfter(p) ==
  CASE p = "generate" -> "startup"
    [] p = "startup" -> "fulfill"
    [] p = "fulfill" -> "burn"
    [] p = "burn" -> "life"

\* life whose loop runs once more than asked
life_one_more(m, ncycles) == [m EXCEPT !.pc = "life", !.todo = ncycles + 1]

\* life that starts the city's clock afresh on every call
life_restarts(m, ncycles) ==
  [m EXCEPT !.pc = "life", !.todo = ncycles, !.city.age = 0]

\* the call life(ncycles)
life(m, ncycles) == [m EXCEPT !.pc = "life", !.todo = ncycles]

\* city_cycle that returns at once when the city has no people or no
\* business locations
city_cycle_returns_on_empty(m) ==
  IF Len(m.city.needs) = 0 \/ Len(m.city.available) = 0
  THEN [m EXCEPT !.pc = "life"]
  ELSE [m EXCEPT !.city.age = @ + 1, !.pc = "generate", !.i = 1]

\* City.city_cycle, line 123, and the entry into its first loop
city_cycle(m) ==
  [m EXCEPT !.city.age = @ + 1, !.pc = "generate", !.i = 1]

\* City.life: one test of `for i in xrange(ncycles)`
life_loop(m) ==
  IF m.todo > 0 THEN city_cycle([m EXCEPT !.todo = @ - 1])
  ELSE [m EXCEPT !.pc = "idle"]

\* leaving a for loop of city_cycle
loop_exit(m) == [m EXCEPT !.pc = PhaseAfter(m.pc), !.i = 1]

\* lines 124-125: one step of `for p in self.people: p.generate()`
people_generate(m, arrivals) ==
  IF m.i <= Len(m.city.needs)
  THEN [m EXCEPT !.city = generate(m.city, m.i, arrivals), !.i = @ + 1]
  ELSE loop_exit(m)

\* lines 126-136: one step of `for bl in self.business_locations`
locations_evaluate(m, s) ==
  IF m.i <= Len(m.city.available)
  THEN [m EXCEPT !.city = evaluate(m.city, m.i, s), !.i = @ + 1]
  ELSE loop_exit(m)

\* lines 137-138: one step of `for p in self.people: p.fulfill()`
people_fulfill(m) ==
  IF m.i <= Len(m.city.needs)
  THEN [m EXCEPT !.city = fulfill(m.city, m.i), !.i = @ + 1]
  ELSE loop_exit(m)

\* lines 139-140: one step of `for b in self.businesses: b.burn()`.  The
\* list iterator holds a position; it yields the element now at that
\* position of the list, whatever burn() removed meanwhile, and advances.
businesses_burn(m) ==
  IF m.i <= Len(m.city.businesses)
  THEN [m EXCEPT !.city = burn(m.city, m.i), !.i = @ + 1]
  ELSE loop_exit(m)

\* One step of a running call, on the draws d.
Step(m, d) ==
  CASE m.pc = "life" -> life_loop(m)
    [] m.pc = "generate" -> people_generate(m, d.arrivals)
    [] m.pc = "startup" -> locations_evaluate(m, d.scores)
    [] m.pc = "fulfill" -> people_fulfill(m)
    [] m.pc = "burn" -> businesses_burn(m)
    [] OTHER -> m


\* ------------------------------------------------------------- history
\* log records, for the cycle in progress (or the last one completed): the
\* people whose generate() and fulfill() have run, the locations examined,
\* the ids of the businesses active when the burn loop began, the ids
\* whose burn() has run (in order), and for the last step: its operation,
\* its subject, and the scores drawn if it examined a vacant location.
\* For the call of life in progress (or the last one returned): target is
\* the city's age at the call plus the ncycles asked for, owed the number
\* of cycles asked for and not yet completed.

EmptyLog ==
  [ generated |-> {}, evaluated |-> {}, fulfilled |-> {},
    burnstart |-> {}, burnlog |-> << >>,
    scores |-> << >>, op |-> "none", who |-> 0,
    target |-> 0, owed |-> 0 ]

\* the history at a call life(ncycles) on the run m
CallLog(lg, m, ncycles) ==
  [lg EXCEPT !.target = m.city.age + ncycles, !.owed = ncycles]

Ids(s) == {s[k].id : k \in 1..Len(s)}

Observe(m, d, lg) ==
  LET m2 == Step(m, d)
      base == IF m.pc = "life"
              THEN (IF m.todo > 0
                    THEN [EmptyLog EXCEPT !.target = lg.target,
                                          !.owed = lg.owed]
                    ELSE lg)
              ELSE [lg EXCEPT !.scores = << >>, !.op = "none", !.who = 0]
      stepped ==
        CASE m.pc = "generate" /\ m.i <= Len(m.city.needs) ->
               [base EXCEPT !.generated = @ \cup {m.i},
                            !.op = "generate", !.who = m.i]
          [] m.pc = "startup" /\ m.i <= Len(m.city.available) ->
               [base EXCEPT !.evaluated = @ \cup {m.i},
                            !.op = "evaluate", !.who = m.i,
                            !.scores = IF m.city.available[m.i]
                                       THEN d.scores ELSE << >>]
          [] m.pc = "fulfill" /\ m.i <= Len(m.city.needs) ->
               [base EXCEPT !.fulfilled = @ \cup {m.i},
                            !.op = "fulfill", !.who = m.i]
          [] m.pc = "burn" /\ m.i <= Len(m.city.businesses) ->
               [base EXCEPT !.burnlog = Append(@, m.city.businesses[m.i].id),
                            !.op = "burn", !.who = m.city.businesses[m.i].id]
          [] OTHER -> base
      entered == IF m2.pc = "burn" /\ m.pc # "burn"
                 THEN [stepped EXCEPT !.burnstart = Ids(m2.city.businesses)]
                 ELSE stepped
  IN IF m2.pc = "life" /\ m.pc # "life"
     THEN [entered EXCEPT !.owed = @ - 1]
     ELSE entered

\* ------------------------------------------------------------- actions

M == [city |-> city, pc |-> pc, i |-> i, todo |-> todo]

Becomes(m) ==
  /\ city' = m.city
  /\ pc' = m.pc
  /\ i' = m.i
  /\ todo' = m.todo

\* The draws a step at m consumes: poisson arrivals in Person.generate,
\* startup scores at a vacant location; nothing random elsewhere.
NoArrivals == [n \in DOMAIN DTypes |-> 0]
NoScores(m) == [t \in 1..Len(m.city.btypes) |-> None]

DrawsAt(m) ==
  IF m.pc = "generate" /\ m.i <= Len(m.city.needs)
  THEN {[arrivals |-> a, scores |-> NoScores(m)] :
          a \in {f \in [DOMAIN DTypes -> 0..MaxNeed] : \A n \in DOMAIN DTypes :
                   f[n] \in Arrivals(m.city.needs[m.i][n], n)}}
  ELSE IF m.pc = "startup" /\ m.i <= Len(m.city.available)
          /\ m.city.available[m.i]
  THEN {[arrivals |-> NoArrivals, scores |-> s] :
          s \in [1..Len(m.city.btypes) -> Scores]}
  ELSE {[arrivals |-> NoArrivals, scores |-> NoScores(m)]}

Advance(d) ==
  /\ Becomes(Step(M, d))
  /\ log' = Observe(M, d, log)

Init ==
  /\ city \in Cities
  /\ pc = "idle"
  /\ i = 1
  /\ todo = 0
  /\ log = EmptyLog
  /\ twin = [run |-> [city |-> city, pc |-> "idle", i |-> 1, todo |-> 0],
             calls |-> 0, second |-> 0]

\* a caller calls life(n)
Life ==
  /\ pc = "idle"
  /\ \E n \in 0..(MaxAge - city.age) :
       /\ Becomes(life(M, n))
       /\ log' = CallLog(log, M, n)
  /\ UNCHANGED twin

\* life's loop starts the next city_cycle
NextCycle ==
  /\ pc = "life" /\ todo > 0
  /\ \E d \in DrawsAt(M) : Advance(d)
  /\ UNCHANGED twin

\* life's loop is exhausted and life returns
Return ==
  /\ pc = "life" /\ todo = 0
  /\ \E d \in DrawsAt(M) : Advance(d)
  /\ UNCHANGED twin

Generate ==
  /\ pc = "generate" /\ i <= Len(city.needs)
  /\ \E d \in DrawsAt(M) : Advance(d)
  /\ UNCHANGED twin

GenerateDone ==
  /\ pc = "generate" /\ i > Len(city.needs)
  /\ \E d \in DrawsAt(M) : Advance(d)
  /\ UNCHANGED twin

Evaluate ==
  /\ pc = "startup" /\ i <= Len(city.available)
  /\ \E d \in DrawsAt(M) : Advance(d)
  /\ UNCHANGED twin

EvaluateDone ==
  /\ pc = "startup" /\ i > Len(city.available)
  /\ \E d \in DrawsAt(M) : Advance(d)
  /\ UNCHANGED twin

Fulfill ==
  /\ pc = "fulfill" /\ i <= Len(city.needs)
  /\ \E d \in DrawsAt(M) : Advance(d)
  /\ UNCHANGED twin

FulfillDone ==
  /\ pc = "fulfill" /\ i > Len(city.needs)
  /\ \E d \in DrawsAt(M) : Advance(d)
  /\ UNCHANGED twin

Burn ==
  /\ pc = "burn" /\ i <= Len(city.businesses)
  /\ \E d \in DrawsAt(M) : Advance(d)
  /\ UNCHANGED twin

BurnDone ==
  /\ pc = "burn" /\ i > Len(city.businesses)
  /\ \E d \in DrawsAt(M) : Advance(d)
  /\ UNCHANGED twin

Next ==
  \/ Life \/ NextCycle \/ Return
  \/ Generate \/ GenerateDone
  \/ Evaluate \/ EvaluateDone
  \/ Fulfill \/ FulfillDone
  \/ Burn \/ BurnDone

Spec == Init /\ [][Next]_vars


\* ------------------------------------------------------------- two calls
\* SpecCompose runs life(n) and then life(k) on the city, and beside it the
\* twin: the same initial city under one call life(n + k), stepping on the
\* same draws.  twin.calls counts the calls made so far, twin.second is k.

ComposeCall ==
  /\ pc = "idle" /\ twin.calls = 0
  /\ \E n \in 0..MaxAge : \E k \in 0..(MaxAge - n) :
       /\ Becomes(life(M, n))
       /\ log' = CallLog(log, M, n)
       /\ twin' = [run |-> life(twin.run, n + k), calls |-> 1, second |-> k]

ComposeStep ==
  /\ pc \notin {"idle"} /\ ~(pc = "life" /\ todo = 0)
  /\ \E d \in DrawsAt(M) :
       /\ Advance(d)
       /\ twin' = [twin EXCEPT !.run = Step(@, d)]

\* The first call returns between two cycles of the twin's single call; the
\* second returns when the twin's call does.
ComposeReturn ==
  /\ pc = "life" /\ todo = 0
  /\ \E d \in DrawsAt(M) :
       /\ Advance(d)
       /\ twin' = IF twin.calls = 2
                  THEN [twin EXCEPT !.run = Step(@, d)] ELSE twin

ComposeCallAgain ==
  /\ pc = "idle" /\ twin.calls = 1
  /\ Becomes(life(M, twin.second))
  /\ log' = CallLog(log, M, twin.second)
  /\ twin' = [twin EXCEPT !.calls = 2]

ComposeNext ==
  \/ ComposeCall \/ ComposeStep \/ ComposeReturn \/ ComposeCallAgain

SpecCompose == Init /\ [][ComposeNext]_vars


\* ------------------------------------------------------------- properties

Range(s) == {s[k] : k \in DOMAIN s}
People == DOMAIN city.needs
Locations == DOMAIN city.available
Active == Range(city.businesses)
Failed == Range(city.failed_businesses)
Count(s, x) == Cardinality({k \in DOMAIN s : s[k] = x})

\* no call in progress, or between two cycles of one
CycleBoundary == pc \in {"idle", "life"}

\* the step about to be taken is burn() of city.businesses[i]
BurnStep == pc = "burn" /\ i <= Len(city.businesses)

\* C1: after construction and after every completed cycle, active
\* businesses and occupied locations correspond one to one: each active
\* business sits on an occupied location, no two share one, each occupied
\* location has an active business, and the two counts are equal.
C1_ActiveMatchesOccupied ==
  CycleBoundary =>
    /\ \A k \in DOMAIN city.businesses :
         /\ city.businesses[k].blocation \in Locations
         /\ ~city.available[city.businesses[k].blocation]
    /\ \A j, k \in DOMAIN city.businesses :
         city.businesses[j].blocation = city.businesses[k].blocation => j = k
    /\ \A bl \in Locations :
         ~city.available[bl] => \E b \in Active : b.blocation = bl
    /\ Len(city.businesses) =
         Cardinality({bl \in Locations : ~city.available[bl]})

\* C1 witness: a cycle has completed in which one business died, while a
\* business born in a cycle is active.
C1_Witness ==
  /\ pc = "idle"
  /\ \E f \in Failed : f.deathday = city.age
  /\ \E b \in Active : b.birthday >= 1

\* C2: one burn() leaves the business's cash at its previous cash minus its
\* type's burnrate; if that is below 0 the business is, right after the
\* call, out of city.businesses and in city.failed_businesses.
C2_BurnPaysAndFails ==
  [][ BurnStep =>
        LET b == city.businesses[i]
            after == CHOOSE r \in Range(city'.businesses) \cup
                                  Range(city'.failed_businesses) : r.id = b.id
        IN /\ after.cash = b.cash - city.btypes[b.btype].burnrate
           /\ after.cash < 0 =>
                /\ b.id \notin Ids(city'.businesses)
                /\ b.id \in Ids(city'.failed_businesses) ]_vars

\* C2 witness: the last step was a burn() that left its business with
\* negative cash in the failed history.
C2_Witness ==
  /\ log.op = "burn"
  /\ \E f \in Failed : f.id = log.who /\ f.cash < 0
  /\ log.who \notin Ids(city.businesses)

\* C3: burn() kills exactly when the cash after it is below 0; a business
\* left with cash 0 stays in city.businesses.
C3_StrictBoundary ==
  [][ BurnStep =>
        LET b == city.businesses[i]
            cash == b.cash - city.btypes[b.btype].burnrate
        IN /\ b.id \in Ids(city'.failed_businesses) <=> cash < 0
           /\ b.id \in Ids(city'.businesses) <=> cash >= 0 ]_vars

\* C3 witness: the last step was a burn() that left its business with cash
\* exactly 0, and the business is active.
C3_Witness ==
  /\ log.op = "burn"
  /\ \E b \in Active : b.id = log.who /\ b.cash = 0

\* C4: when the burn loop of a cycle has ended, every business that was
\* active when it began has had burn() run exactly once in that cycle.
C4_EveryActiveBurnsOnce ==
  CycleBoundary =>
    \A id \in log.burnstart : Count(log.burnlog, id) = 1

\* C5: the four loops run in order and each completes before the next
\* begins: a location is examined only after every person has generated,
\* a person fulfills only after every person has generated and every
\* location has been examined, a business burns only after every person
\* has fulfilled.
C5_PhasesInOrder ==
  /\ log.op = "evaluate" => log.generated = People
  /\ log.op = "fulfill" =>
       log.generated = People /\ log.evaluated = Locations
  /\ log.op = "burn" =>
       /\ log.generated = People /\ log.evaluated = Locations
       /\ log.fulfilled = People

\* C5 witness: a business burns in a city that has people and locations.
C5_Witness ==
  /\ log.op = "burn"
  /\ People # {} /\ Locations # {}
  /\ log.fulfilled = People /\ log.evaluated = Locations

\* C6: with no negative initial cash in the catalog, no active business has
\* negative cash at a cycle boundary.
C6_NoNegativeCashAcrossCycles ==
  (CycleBoundary /\ \A t \in DOMAIN city.btypes :
                      city.btypes[t].initial_cash >= 0)
    => \A b \in Active : b.cash >= 0

\* C6 witness: a cycle has completed in which a business died of negative
\* cash, and a business is still active.
C6_Witness ==
  /\ pc = "idle"
  /\ \E f \in Failed : f.deathday = city.age /\ f.cash < 0
  /\ Active # {}

\* C7: the failed history only grows at its end; a business is appended to
\* it only by its own burn() leaving it with negative cash, out of the
\* active collection; a failed business is never active and never burned
\* again.
C7_FailedIsTerminal ==
  [][ /\ Len(city'.failed_businesses) >= Len(city.failed_businesses)
      /\ SubSeq(city'.failed_businesses, 1, Len(city.failed_businesses))
           = city.failed_businesses
      /\ \A k \in (Len(city.failed_businesses) + 1)
                    ..Len(city'.failed_businesses) :
           LET f == city'.failed_businesses[k]
           IN /\ BurnStep /\ city.businesses[i].id = f.id
              /\ f.cash < 0
              /\ f.id \notin Ids(city.failed_businesses)
      /\ Ids(city'.businesses) \cap Ids(city'.failed_businesses) = {}
      /\ BurnStep => city.businesses[i].id \notin Ids(city.failed_businesses)
    ]_vars

\* C7 witness: a business burns in a cycle after the one in which another
\* business failed.
C7_Witness ==
  /\ log.op = "burn"
  /\ \E f \in Failed : f.deathday < city.age /\ f.id # log.who

\* C8: examining a vacant location creates a business exactly when some
\* type's score is at least 1; the business is then the last of
\* city.businesses, of a type whose score is the maximum, on that location,
\* which becomes occupied, with its type's initial cash and the city's age
\* as birthday; otherwise the city is left as it was.
C8_StartupRule ==
  [][ (pc = "startup" /\ i <= Len(city.available) /\ city.available[i]) =>
        LET s == log'.scores
            made == city'.created = city.created + 1
        IN /\ made <=> \E t \in DOMAIN city.btypes : s[t] >= 1
           /\ made =>
                LET b == city'.businesses[Len(city'.businesses)]
                IN /\ Len(city'.businesses) = Len(city.businesses) + 1
                   /\ b.id = city'.created
                   /\ b.blocation = i
                   /\ ~city'.available[i]
                   /\ \A t \in DOMAIN city.btypes : s[b.btype] >= s[t]
                   /\ b.cash = city.btypes[b.btype].initial_cash
                   /\ b.birthday = city.age
           /\ ~made => city' = city ]_vars

\* C8 witness: the last step examined a vacant location and started a
\* business there, one type scoring below 1 and another at least 1.
C8_Witness ==
  /\ log.op = "evaluate"
  /\ \E b \in Active :
       /\ b.id = city.created /\ b.blocation = log.who
       /\ b.birthday = city.age /\ city.age >= 1
  /\ \E t, u \in DOMAIN log.scores : log.scores[t] < 1 /\ log.scores[u] >= 1

\* C9: the location of a business that died in the current cycle is vacant
\* for the rest of that cycle, its end included.
C9_FreedStaysVacant ==
  \A f \in Failed : f.deathday = city.age => city.available[f.blocation]

\* C9 witness: a business is active on a location whose previous business
\* died in the cycle before its birth.
C9_Witness ==
  \E f \in Failed : \E b \in Active :
    b.blocation = f.blocation /\ b.birthday = f.deathday + 1

\* C10: when life(n) and then life(k) have returned, the city is the one
\* the twin reached by life(n + k) on the same draws, and the twin's call
\* has returned too.
C10_Composable ==
  (twin.calls = 2 /\ pc = "idle") =>
    /\ twin.run.pc = "idle"
    /\ twin.run.city = city

\* C10 witness: both calls ran at least one cycle and have returned, with
\* a business failed and a business active.
C10_Witness ==
  /\ twin.calls = 2 /\ pc = "idle"
  /\ twin.second >= 1 /\ city.age > twin.second
  /\ Failed # {} /\ Active # {}

\* the states of C11: every need of every person is 0 after construction
\* and never negative afterwards, after a fulfill() in particular.
C11_NeedsState ==
  /\ \A p \in People : \A n \in DOMAIN DTypes :
       city.needs[p][n] >= 0 /\ (city.age = 0 => city.needs[p][n] = 0)
  /\ log.op = "fulfill" =>
       \A n \in DOMAIN DTypes : city.needs[log.who][n] >= 0

\* the steps of C11: generate() on a person leaves each need at least
\* where it was.
C11_GenerateGrows ==
  [][ (pc = "generate" /\ i <= Len(city.needs)) =>
        \A n \in DOMAIN DTypes : city'.needs[i][n] >= city.needs[i][n] ]_vars

\* C11: every need of every person is 0 after construction and never
\* negative afterwards; generate() never lowers a need, and fulfill()
\* never leaves one below zero.
C11_NeedsNonNegative == []C11_NeedsState /\ C11_GenerateGrows

\* C11 witness: a person has fulfilled with a need above zero that
\* generate() added in this cycle.
C11_Witness ==
  /\ log.op = "fulfill"
  /\ log.who \in log.generated
  /\ \E n \in DOMAIN DTypes : city.needs[log.who][n] > 0

\* ------------------------------------------------------------- startup
\* SpecStartup: a caller calls BusinessType.startup itself, for any type of
\* the catalog and any location of the city, vacant or not.

StartupCall ==
  /\ pc = "idle"
  /\ city.created - FillCount(Len(city.available)) < MaxCalls
  /\ \E bt \in DOMAIN city.btypes : \E bl \in Locations :
       /\ city' = startup(city, bt, bl)
       /\ log' = [log EXCEPT !.op = "startup", !.who = bl]
  /\ UNCHANGED << pc, i, todo, twin >>

SpecStartup == Init /\ [][StartupCall]_vars

\* C12: startup on an occupied location registers nothing: no two active
\* businesses are ever bound to the same location.
C12_OccupiedStartupFails ==
  \A j, k \in DOMAIN city.businesses :
    city.businesses[j].blocation = city.businesses[k].blocation => j = k

\* the states of C13: in a city without people no generate() or fulfill()
\* runs; in a city without locations no location is examined and no
\* business is ever created or failed; in either, a call in progress can
\* take its next step, and a call that has returned has completed every
\* cycle asked for and left the age at its target.
C13_EmptyState ==
  /\ People = {} => log.generated = {} /\ log.fulfilled = {}
  /\ Locations = {} =>
       /\ log.evaluated = {} /\ city.created = 0
       /\ city.businesses = << >> /\ city.failed_businesses = << >>
  /\ (People = {} \/ Locations = {}) =>
       /\ pc # "idle" => ENABLED Next
       /\ pc = "idle" => log.owed = 0 /\ city.age = log.target

\* the steps of C13: in such a city the age grows by one when a cycle
\* begins and not otherwise.
C13_EmptySteps ==
  [][ (People = {} \/ Locations = {}) =>
        city'.age = city.age + (IF pc = "life" /\ todo > 0 THEN 1 ELSE 0)
    ]_vars

\* C13: a city with no people or no locations runs its cycles: the loops
\* over the empty collection do nothing, the age advances by one per
\* cycle, and the empty collection creates and fails no business.
C13_EmptyCityRuns == []C13_EmptyState /\ C13_EmptySteps

\* C13 witness: a city without people has run two cycles and its call has
\* returned, a business having failed on the way.
C13_Witness ==
  /\ pc = "idle" /\ city.age >= 2
  /\ People = {} /\ Locations # {}
  /\ Failed # {}

\* a city without locations has run two cycles, its person's need grown
C13_WitnessNoLocations ==
  /\ pc = "idle" /\ city.age >= 2
  /\ Locations = {} /\ People # {}
  /\ \E p \in People : \E n \in DOMAIN DTypes : city.needs[p][n] > 0

\* the states of C15: an active business has neither deathday nor lifespan.
C15_ActiveUnset ==
  \A b \in Active : b.deathday = None /\ b.lifespan = None

\* the steps of C15: a burn() that leaves negative cash has, when it
\* returns, set the deathday to the city's age and the lifespan to deathday
\* minus birthday, appended the business to failed_businesses and made its
\* location available.
C15_DeathSteps ==
  [][ (BurnStep /\ city.businesses[i].cash
                     - city.btypes[city.businesses[i].btype].burnrate < 0) =>
        LET b == city.businesses[i]
            f == city'.failed_businesses[Len(city'.failed_businesses)]
        IN /\ Len(city'.failed_businesses) = Len(city.failed_businesses) + 1
           /\ f.id = b.id
           /\ f.deathday = city.age
           /\ f.lifespan = f.deathday - b.birthday
           /\ f.birthday = b.birthday
           /\ city'.available[b.blocation] ]_vars

\* C15: deathday and lifespan are None while a business is active, and
\* the burn() in which it dies sets both, appends it to the failed history
\* and frees its location.
C15_DeathBookkeeping == []C15_ActiveUnset /\ C15_DeathSteps

\* C15 witness: the last step was the burn() in which a business born in
\* a cycle died, its deathday the city's age.
C15_Witness ==
  /\ log.op = "burn"
  /\ \E f \in Failed :
       /\ f.id = log.who /\ f.birthday >= 1
       /\ f.deathday = city.age /\ f.lifespan = f.deathday - f.birthday
       /\ city.available[f.blocation]

\* the steps of C16: the age never decreases; it grows by exactly one when
\* a cycle begins and is unchanged by every other step; when life returns,
\* every cycle asked for has completed and the age is the age at the call
\* plus ncycles.
C16_AgeSteps ==
  [][ /\ city'.age = city.age + (IF pc = "life" /\ pc' = "generate"
                                 THEN 1 ELSE 0)
      /\ (pc = "life" /\ todo > 0) => pc' = "generate"
      /\ (pc = "life" /\ pc' = "idle") =>
           log.owed = 0 /\ city'.age = log.target ]_vars

\* the states of C16: with no call in progress the age is what the last
\* call had to reach, and no cycle is owed.
C16_AgeAtRest ==
  pc = "idle" => city.age = log.target /\ log.owed = 0

\* C16: the age is 0 after construction, grows by exactly 1 per
\* city_cycle and never decreases; life(n) returns with the age n larger
\* and n cycles completed.
C16_AgeCountsCycles == city.age = 0 /\ []C16_AgeAtRest /\ C16_AgeSteps

\* C16 witness: life has returned with two cycles run since construction.
C16_Witness ==
  /\ pc = "idle" /\ city.age >= 2
  /\ city.age = log.target /\ log.owed = 0

\* C17: when examining a vacant location starts a business, its type is
\* the first, in the iteration order of the types, whose score is the
\* maximum: every earlier type scored strictly less, no later type scored
\* more.
C17_FirstMaximumWins ==
  [][ (/\ pc = "startup" /\ i <= Len(city.available) /\ city.available[i]
       /\ city'.created = city.created + 1) =>
        LET s == log'.scores
            won == city'.businesses[Len(city'.businesses)].btype
        IN \A t \in DOMAIN city.btypes :
             /\ t < won => s[t] < s[won]
             /\ t > won => s[t] <= s[won] ]_vars

\* C17 witness: the last step started a business at a location where two
\* types tied for the maximum score, and the earlier type was taken.
C17_Witness ==
  /\ log.op = "evaluate"
  /\ \E b \in Active :
       /\ b.id = city.created /\ b.blocation = log.who
       /\ b.birthday = city.age /\ city.age >= 1
       /\ \E u \in DOMAIN log.scores :
            u > b.btype /\ log.scores[u] = log.scores[b.btype]
       /\ \A t \in DOMAIN log.scores : log.scores[t] <= log.scores[b.btype]

\* C18: no step of a cycle adds or removes a person or a location (a
\* location is its position in business_locations, which stands for its
\* coordinates); a location's flag changes only from vacant to occupied in
\* the step that starts a business on it, and from occupied to vacant in
\* the burn() in which the business on it dies.
C18_PeopleAndLocationsFixed ==
  [][ /\ DOMAIN city'.needs = DOMAIN city.needs
      /\ DOMAIN city'.available = DOMAIN city.available
      /\ \A bl \in Locations :
           city'.available[bl] # city.available[bl] =>
             IF city.available[bl]
             THEN /\ pc = "startup" /\ i = bl
                  /\ city'.created = city.created + 1
                  /\ city'.businesses[Len(city'.businesses)].blocation = bl
             ELSE /\ BurnStep
                  /\ city.businesses[i].blocation = bl
                  /\ city.businesses[i].id \in Ids(city'.failed_businesses)
    ]_vars

\* C18 witness: the last step was a burn() that freed the location of the
\* business it killed, while another location stays occupied.
C18_Witness ==
  /\ log.op = "burn"
  /\ \E f \in Failed : f.id = log.who /\ city.available[f.blocation]
  /\ \E b \in Active : ~city.available[b.blocation]
  /\ People # {}

\* C19: when a cycle has completed, every business born in it was active
\* when its burn loop began and was burned once in it: its cash is its
\* type's initial cash (no revenue: fulfill() pays none) minus one
\* burnrate, and if that is negative it has died in this cycle with
\* lifespan 0.
C19_BurnedInBirthCycle ==
  (CycleBoundary /\ city.age >= 1) =>
    \A b \in Active \cup Failed :
      b.birthday = city.age =>
        /\ b.id \in log.burnstart
        /\ Count(log.burnlog, b.id) = 1
        /\ b.cash = city.btypes[b.btype].initial_cash
                      - city.btypes[b.btype].burnrate
        /\ b.cash < 0 =>
             b \in Failed /\ b.deathday = city.age /\ b.lifespan = 0

\* C20: the businesses created so far are exactly those in
\* city.businesses and city.failed_businesses together, each in one of the
\* two lists and once: no id is in both, every id made is in one, and the
\* two lengths add up to the number created.
C20_EveryBusinessOnce ==
  /\ Ids(city.businesses) \cap Ids(city.failed_businesses) = {}
  /\ Ids(city.businesses) \cup Ids(city.failed_businesses) = 1..city.created
  /\ Len(city.businesses) + Len(city.failed_businesses) = city.created

\* C20 witness: three businesses have been created, by construction and
\* by startups, of which some have failed and some are active.
C20_Witness ==
  /\ city.created >= 3
  /\ Failed # {} /\ Active # {}
  /\ \E b \in Active \cup Failed : b.birthday = 0

====
